---- MODULE Spec2Model ----
(***************************************************************************)
(* Model of sec-edgar-scraper: the statement locator and retrieval         *)
(* pipeline (scraper.py), the value normalizers (__standardize_number,     *)
(* __standardize_date) and the role-based table extractor                  *)
(* (test/edgar_functions.py).                                              *)
(*                                                                         *)
(* Python strings are sequences of one-character strings, so that lower(), *)
(* strip(), replace(), re.sub() and int() are computed character by        *)
(* character.                                                              *)
(***************************************************************************)
EXTENDS Integers, Sequences, FiniteSets, TLC

VARIABLES
    \* --- __standardize_number(number_str, multiplier) -------------------
    number_str,      \* the argument: a str, the float nan, or another number
    multiplier,      \* the unit multiplier argument
    number_out,      \* the returned value (or "pending" before the call)
    \* --- __standardize_date(date) ---------------------------------------
    date,            \* the header string as it stands
    date_in,         \* the header string first passed in
    date_calls,      \* how many times __standardize_date was applied to it
    \* --- get_one_statement(cik, accession_number, statement_name) --------
    pc,              \* the stage the call has reached
    statement_name,  \* the statement_name argument
    filing_summary,  \* the Report elements of the filing's FilingSummary.xml
    catalog,         \* statement_file_name_dict
    statement_link,  \* the link resolved by the locator loop
    soup,            \* what get_statement_soup returned or raised
    result,          \* what get_one_statement returned
    log,             \* the logging.error records written so far
    stages,          \* the stages of the call run so far, in order
    \* --- __extract_columns_values_and_dates_from_statement(soup) ---------
    ext_soup,        \* the document: its dated header cells and its tables
    ext_out,         \* the returned (columns, values_set, date_time_index)
    \* --- get_one_statement of test/edgar_functions.py, after the soup -----
    ext_df,          \* the frame it returns, or None
    \* --- make_get_request(url, headers, retry_count, payload, resp_json) --
    req_args,        \* payload and resp_json of the top-level call
    req_stack,       \* the activations of make_get_request, innermost last
    req_signal,      \* what the activation that just ended returned or raised
    req_gets,        \* the requests.get calls made so far, in order
    req_out,         \* what the top-level call returned or raised
    \* --- get_filtered_filings(cik, form, just_accession_numbers) ----------
    form,                    \* the form argument: a str or None
    just_accession_numbers,  \* the flag argument
    recent_filings,          \* company_json["filings"]["recent"], row by row
    filtered                 \* what get_filtered_filings returned or raised

numVars  == <<number_str, multiplier, number_out>>
dateVars == <<date, date_in, date_calls>>
pipeVars == <<pc, statement_name, filing_summary, catalog, statement_link, soup,
              result, log, stages>>
extVars  == <<ext_soup, ext_out, ext_df>>
reqVars  == <<req_args, req_stack, req_signal, req_gets, req_out>>
filVars  == <<form, just_accession_numbers, recent_filings, filtered>>
vars     == <<number_str, multiplier, number_out, date, date_in, date_calls,
              pc, statement_name, filing_summary, catalog, statement_link, soup,
              result, log, stages, ext_soup, ext_out, ext_df,
              req_args, req_stack, req_signal, req_gets, req_out,
              form, just_accession_numbers, recent_filings, filtered>>

(***************************************************************************)
(* Bounds                                                                  *)
(***************************************************************************)
MaxStrLen == 3       \* raw cell strings of every length up to this one
MaxDateTokens == 2   \* header strings are built from up to this many tokens

(***************************************************************************)
(* Characters and the str methods the code uses                            *)
(***************************************************************************)
Digits == {"0", "1", "2", "3", "4", "5", "6", "7", "8", "9"}

IsDigit(c) == c \in Digits

Contains(s, c) == \E i \in DOMAIN s : s[i] = c

Remove(s, c) == SelectSeq(s, LAMBDA x : x # c)

IsSpace(c) == c = " "

RECURSIVE LStrip(_)
LStrip(s) == IF s # <<>> /\ IsSpace(s[1]) THEN LStrip(Tail(s)) ELSE s

RECURSIVE RStrip(_)
RStrip(s) ==
    IF s # <<>> /\ IsSpace(s[Len(s)]) THEN RStrip(SubSeq(s, 1, Len(s) - 1)) ELSE s

Strip(s) == RStrip(LStrip(s))

UpperLetters ==
    <<"A","B","C","D","E","F","G","H","I","J","K","L","M",
      "N","O","P","Q","R","S","T","U","V","W","X","Y","Z">>
LowerLetters ==
    <<"a","b","c","d","e","f","g","h","i","j","k","l","m",
      "n","o","p","q","r","s","t","u","v","w","x","y","z">>

\* the lower-case form of each upper-case letter
LowerOf == [c \in {UpperLetters[i] : i \in 1..26} |->
               LowerLetters[CHOOSE i \in 1..26 : UpperLetters[i] = c]]

LowerChar(c) == IF c \in DOMAIN LowerOf THEN LowerOf[c] ELSE c

Lower(s) == [i \in DOMAIN s |-> LowerChar(s[i])]

(***************************************************************************)
(* Values: None, an int, or a raised exception                             *)
(***************************************************************************)
None == [kind |-> "None", val |-> 0, exc |-> ""]
IntVal(n) == [kind |-> "int", val |-> n, exc |-> ""]
Raised(e) == [kind |-> "raise", val |-> 0, exc |-> e]
Pending == [kind |-> "pending", val |-> 0, exc |-> ""]

Str(s) == [kind |-> "str", s |-> s]
NanFloat == [kind |-> "nan", s |-> <<>>]
Numeric == [kind |-> "number", s |-> <<>>]

(***************************************************************************)
(* __standardize_number                                                    *)
(***************************************************************************)
\* the literal set {'N/A', '--', '', "nan", "NAN"}
MissingMarkers ==
    { <<"N","/","A">>, <<"-","-">>, <<>>, <<"n","a","n">>, <<"N","A","N">> }

IsMissingMarker(s) == Strip(s) \in MissingMarkers

has_parens_either(s) == Contains(s, "(") \/ Contains(s, ")")
has_parens(s) == Contains(s, "(") /\ Contains(s, ")")

\* re.sub(r'[^\d.-]', '', number_str)
re_sub_non_numeric(s) == SelectSeq(s, LAMBDA x : IsDigit(x) \/ x = "." \/ x = "-")

DigitVal(c) ==
    CASE c = "0" -> 0 [] c = "1" -> 1 [] c = "2" -> 2 [] c = "3" -> 3
      [] c = "4" -> 4 [] c = "5" -> 5 [] c = "6" -> 6 [] c = "7" -> 7
      [] c = "8" -> 8 [] c = "9" -> 9

RECURSIVE DigitsVal(_)
DigitsVal(s) ==
    IF s = <<>> THEN 0
    ELSE 10 * DigitsVal(SubSeq(s, 1, Len(s) - 1)) + DigitVal(s[Len(s)])

AllDigits(s) == \A i \in DOMAIN s : IsDigit(s[i])

\* int(number_str) succeeds: an optional sign followed by one or more digits
int_parses_or_empty(s) ==
    LET body == IF s # <<>> /\ s[1] = "-" THEN Tail(s) ELSE s
    IN  AllDigits(body)
int_parses(s) ==
    LET body == IF s # <<>> /\ s[1] = "-" THEN Tail(s) ELSE s
    IN  body # <<>> /\ AllDigits(body)

int_value(s) ==
    IF s # <<>> /\ s[1] = "-" THEN 0 - DigitsVal(Tail(s)) ELSE DigitsVal(s)

standardize_number(v, m) ==
    IF v.kind = "nan" THEN None
    ELSE IF v.kind # "str" THEN Raised("AttributeError")
    ELSE IF IsMissingMarker(v.s) THEN None
    ELSE LET negative == has_parens(v.s)
             s1 == IF negative THEN Remove(Remove(v.s, "("), ")") ELSE v.s
             is_num_currency == Contains(s1, "$")
             s2 == re_sub_non_numeric(s1)
         IN  IF ~int_parses(s2) THEN None
             ELSE LET n0 == int_value(s2)
                      number == IF negative THEN 0 - n0 ELSE n0
                  IN  IntVal(IF is_num_currency THEN number * m ELSE number)

(***************************************************************************)
(* Inputs of the normalizer                                                *)
(***************************************************************************)
CellAlphabet ==
    {"0", "1", "5", ",", ".", "-", "(", ")", "$", " ", "N", "A", "n", "a", "/"}

RECURSIVE StringsUpTo(_, _)
StringsUpTo(alphabet, n) ==
    IF n = 0 THEN {<<>>}
    ELSE LET shorter == StringsUpTo(alphabet, n - 1)
         IN  shorter \cup {Append(s, c) : s \in shorter, c \in alphabet}

ExampleCells ==
    { <<"(","1",",","2","3","4",")">>,
      <<"$","1",",","2","3","4">>,
      <<"1",",","2","3","4">>,
      <<"1",",","2","3","4",".","5","6">>,
      <<"(","$","1",",","2","3","4",")">>,
      <<" ","N","/","A"," ">>,
      <<"(","n","/","a",")">> }

CellStrings == StringsUpTo(CellAlphabet, MaxStrLen) \cup ExampleCells

NumberInputs == {Str(s) : s \in CellStrings} \cup {NanFloat, Numeric}

\* process_dict always passes 1; the signature admits any multiplier
Multipliers == {1, 1000}

(***************************************************************************)
(* __standardize_date                                                      *)
(***************************************************************************)
\* calendar.month_abbr[1:] and calendar.month_name[1:]
month_abbr ==
    << <<"J","a","n">>, <<"F","e","b">>, <<"M","a","r">>, <<"A","p","r">>,
       <<"M","a","y">>, <<"J","u","n">>, <<"J","u","l">>, <<"A","u","g">>,
       <<"S","e","p">>, <<"O","c","t">>, <<"N","o","v">>, <<"D","e","c">> >>

month_name ==
    << <<"J","a","n","u","a","r","y">>,
       <<"F","e","b","r","u","a","r","y">>,
       <<"M","a","r","c","h">>,
       <<"A","p","r","i","l">>,
       <<"M","a","y">>,
       <<"J","u","n","e">>,
       <<"J","u","l","y">>,
       <<"A","u","g","u","s","t">>,
       <<"S","e","p","t","e","m","b","e","r">>,
       <<"O","c","t","o","b","e","r">>,
       <<"N","o","v","e","m","b","e","r">>,
       <<"D","e","c","e","m","b","e","r">> >>

StartsWith(s, p) == Len(s) >= Len(p) /\ SubSeq(s, 1, Len(p)) = p

\* str.replace(old, new): every non-overlapping occurrence, left to right
RECURSIVE Replace(_, _, _)
Replace(s, old, new) ==
    IF Len(s) < Len(old) THEN s
    ELSE IF StartsWith(s, old)
         THEN new \o Replace(SubSeq(s, Len(old) + 1, Len(s)), old, new)
         ELSE <<s[1]>> \o Replace(Tail(s), old, new)

\* the loop over zip(month_abbr[1:], month_name[1:]), months 1..k done
RECURSIVE ReplaceMonths(_, _)
ReplaceMonths(s, k) ==
    IF k = 0 THEN s
    ELSE Replace(ReplaceMonths(s, k - 1), month_abbr[k], month_name[k])

\* a header is a str, or a tuple (MultiIndex column) whose item [1] is used
DateStr(s) == [kind |-> "str", s |-> s, first |-> <<>>]
DateTuple(a, b) == [kind |-> "tuple", s |-> b, first |-> a]

standardize_date(d) == ReplaceMonths(d.s, 12)

(***************************************************************************)
(* Header strings                                                          *)
(***************************************************************************)
DateTokens ==
    { <<"J","a","n">>, <<"J","a","n","u","a","r","y">>,
      <<"M","a","r">>, <<"M","a","r","c","h">>,
      <<"M","a","y">>,
      <<"D","e","c">>, <<"D","e","c","e","m","b","e","r">>,
      <<"S","e","p","t">>,
      <<"."," ","3","1",","," ","2","0","2","0">>,
      <<" ","3","1",","," ","2","0","2","0">>,
      <<"1","2","/","3","1","/","2","0","2","0">> }

RECURSIVE TokenStrings(_)
TokenStrings(n) ==
    IF n = 0 THEN {<<>>}
    ELSE LET shorter == TokenStrings(n - 1)
         IN  shorter \cup {s \o t : s \in shorter, t \in DateTokens}

HeaderStrings == TokenStrings(MaxDateTokens)

DateInputs ==
    {DateStr(s) : s \in HeaderStrings}
        \cup {DateTuple(<<"U","S","D">>, s) : s \in TokenStrings(1)}

MaxDateCalls == 2    \* __standardize_date is applied up to this many times

(***************************************************************************)
(* The synonym table (SecEdgarScraper.__init__)                            *)
(***************************************************************************)
\* statement_keys_map["balance_sheet"], in declared order
balance_sheet_keys ==
    <<
      \* balance sheet
      <<"b","a","l","a","n","c","e"," ","s","h","e","e","t">>,
      \* balance sheets
      <<"b","a","l","a","n","c","e"," ","s","h","e","e","t","s">>,
      \* statement of financial position
      <<"s","t","a","t","e","m","e","n","t"," ","o","f"," ","f","i","n","a","n","c","i","a","l"," ","p","o","s","i","t","i","o","n">>,
      \* consolidated balance sheets
      <<"c","o","n","s","o","l","i","d","a","t","e","d"," ","b","a","l","a","n","c","e"," ","s","h","e","e","t","s">>,
      \* consolidated balance sheet
      <<"c","o","n","s","o","l","i","d","a","t","e","d"," ","b","a","l","a","n","c","e"," ","s","h","e","e","t">>,
      \* consolidated financial position
      <<"c","o","n","s","o","l","i","d","a","t","e","d"," ","f","i","n","a","n","c","i","a","l"," ","p","o","s","i","t","i","o","n">>,
      \* consolidated balance sheets - southern
      <<"c","o","n","s","o","l","i","d","a","t","e","d"," ","b","a","l","a","n","c","e"," ","s","h","e","e","t","s"," ","-"," ","s","o","u","t","h","e","r","n">>,
      \* consolidated statements of financial position
      <<"c","o","n","s","o","l","i","d","a","t","e","d"," ","s","t","a","t","e","m","e","n","t","s"," ","o","f"," ","f","i","n","a","n","c","i","a","l"," ","p","o","s","i","t","i","o","n">>,
      \* consolidated statement of financial position
      <<"c","o","n","s","o","l","i","d","a","t","e","d"," ","s","t","a","t","e","m","e","n","t"," ","o","f"," ","f","i","n","a","n","c","i","a","l"," ","p","o","s","i","t","i","o","n">>,
      \* consolidated statements of financial condition
      <<"c","o","n","s","o","l","i","d","a","t","e","d"," ","s","t","a","t","e","m","e","n","t","s"," ","o","f"," ","f","i","n","a","n","c","i","a","l"," ","c","o","n","d","i","t","i","o","n">>,
      \* combined and consolidated balance sheet
      <<"c","o","m","b","i","n","e","d"," ","a","n","d"," ","c","o","n","s","o","l","i","d","a","t","e","d"," ","b","a","l","a","n","c","e"," ","s","h","e","e","t">>,
      \* condensed consolidated balance sheets
      <<"c","o","n","d","e","n","s","e","d"," ","c","o","n","s","o","l","i","d","a","t","e","d"," ","b","a","l","a","n","c","e"," ","s","h","e","e","t","s">>,
      \* consolidated balance sheets, as of december 31
      <<"c","o","n","s","o","l","i","d","a","t","e","d"," ","b","a","l","a","n","c","e"," ","s","h","e","e","t","s",","," ","a","s"," ","o","f"," ","d","e","c","e","m","b","e","r"," ","3","1">>,
      \* dow consolidated balance sheets
      <<"d","o","w"," ","c","o","n","s","o","l","i","d","a","t","e","d"," ","b","a","l","a","n","c","e"," ","s","h","e","e","t","s">>,
      \* consolidated balance sheets (unaudited)
      <<"c","o","n","s","o","l","i","d","a","t","e","d"," ","b","a","l","a","n","c","e"," ","s","h","e","e","t","s"," ","(","u","n","a","u","d","i","t","e","d",")">>
    >>

\* statement_keys_map["income_statement"], in declared order
income_statement_keys ==
    <<
      \* income statement
      <<"i","n","c","o","m","e"," ","s","t","a","t","e","m","e","n","t">>,
      \* income statements
      <<"i","n","c","o","m","e"," ","s","t","a","t","e","m","e","n","t","s">>,
      \* statement of earnings (loss)
      <<"s","t","a","t","e","m","e","n","t"," ","o","f"," ","e","a","r","n","i","n","g","s"," ","(","l","o","s","s",")">>,
      \* statements of consolidated income
      <<"s","t","a","t","e","m","e","n","t","s"," ","o","f"," ","c","o","n","s","o","l","i","d","a","t","e","d"," ","i","n","c","o","m","e">>,
      \* consolidated statements of operations
      <<"c","o","n","s","o","l","i","d","a","t","e","d"," ","s","t","a","t","e","m","e","n","t","s"," ","o","f"," ","o","p","e","r","a","t","i","o","n","s">>,
      \* consolidated statement of operations
      <<"c","o","n","s","o","l","i","d","a","t","e","d"," ","s","t","a","t","e","m","e","n","t"," ","o","f"," ","o","p","e","r","a","t","i","o","n","s">>,
      \* consolidated statements of earnings
      <<"c","o","n","s","o","l","i","d","a","t","e","d"," ","s","t","a","t","e","m","e","n","t","s"," ","o","f"," ","e","a","r","n","i","n","g","s">>,
      \* consolidated statement of earnings
      <<"c","o","n","s","o","l","i","d","a","t","e","d"," ","s","t","a","t","e","m","e","n","t"," ","o","f"," ","e","a","r","n","i","n","g","s">>,
      \* consolidated statements of income
      <<"c","o","n","s","o","l","i","d","a","t","e","d"," ","s","t","a","t","e","m","e","n","t","s"," ","o","f"," ","i","n","c","o","m","e">>,
      \* consolidated statement of income
      <<"c","o","n","s","o","l","i","d","a","t","e","d"," ","s","t","a","t","e","m","e","n","t"," ","o","f"," ","i","n","c","o","m","e">>,
      \* consolidated income statements
      <<"c","o","n","s","o","l","i","d","a","t","e","d"," ","i","n","c","o","m","e"," ","s","t","a","t","e","m","e","n","t","s">>,
      \* consolidated income statement
      <<"c","o","n","s","o","l","i","d","a","t","e","d"," ","i","n","c","o","m","e"," ","s","t","a","t","e","m","e","n","t">>,
      \* condensed consolidated statements of earnings
      <<"c","o","n","d","e","n","s","e","d"," ","c","o","n","s","o","l","i","d","a","t","e","d"," ","s","t","a","t","e","m","e","n","t","s"," ","o","f"," ","e","a","r","n","i","n","g","s">>,
      \* condensed consolidated statements of income
      <<"c","o","n","d","e","n","s","e","d"," ","c","o","n","s","o","l","i","d","a","t","e","d"," ","s","t","a","t","e","m","e","n","t","s"," ","o","f"," ","i","n","c","o","m","e">>,
      \* consolidated results of operations
      <<"c","o","n","s","o","l","i","d","a","t","e","d"," ","r","e","s","u","l","t","s"," ","o","f"," ","o","p","e","r","a","t","i","o","n","s">>,
      \* consolidated statements of income (loss)
      <<"c","o","n","s","o","l","i","d","a","t","e","d"," ","s","t","a","t","e","m","e","n","t","s"," ","o","f"," ","i","n","c","o","m","e"," ","(","l","o","s","s",")">>,
      \* consolidated statements of income - southern
      <<"c","o","n","s","o","l","i","d","a","t","e","d"," ","s","t","a","t","e","m","e","n","t","s"," ","o","f"," ","i","n","c","o","m","e"," ","-"," ","s","o","u","t","h","e","r","n">>,
      \* consolidated statements of operations and comprehensive income
      <<"c","o","n","s","o","l","i","d","a","t","e","d"," ","s","t","a","t","e","m","e","n","t","s"," ","o","f"," ","o","p","e","r","a","t","i","o","n","s"," ","a","n","d"," ","c","o","m","p","r","e","h","e","n","s","i","v","e"," ","i","n","c","o","m","e">>,
      \* consolidated statements of comprehensive income
      <<"c","o","n","s","o","l","i","d","a","t","e","d"," ","s","t","a","t","e","m","e","n","t","s"," ","o","f"," ","c","o","m","p","r","e","h","e","n","s","i","v","e"," ","i","n","c","o","m","e">>,
      \* consolidated statements of comprehensive income (unaudited)
      <<"c","o","n","s","o","l","i","d","a","t","e","d"," ","s","t","a","t","e","m","e","n","t","s"," ","o","f"," ","c","o","m","p","r","e","h","e","n","s","i","v","e"," ","i","n","c","o","m","e"," ","(","u","n","a","u","d","i","t","e","d",")">>
    >>

\* statement_keys_map["cash_flow_statement"], in declared order
cash_flow_statement_keys ==
    <<
      \* cash flows statement
      <<"c","a","s","h"," ","f","l","o","w","s"," ","s","t","a","t","e","m","e","n","t">>,
      \* cash flows statements
      <<"c","a","s","h"," ","f","l","o","w","s"," ","s","t","a","t","e","m","e","n","t","s">>,
      \* statement of cash flows
      <<"s","t","a","t","e","m","e","n","t"," ","o","f"," ","c","a","s","h"," ","f","l","o","w","s">>,
      \* statements of consolidated cash flows
      <<"s","t","a","t","e","m","e","n","t","s"," ","o","f"," ","c","o","n","s","o","l","i","d","a","t","e","d"," ","c","a","s","h"," ","f","l","o","w","s">>,
      \* consolidated statements of cash flows
      <<"c","o","n","s","o","l","i","d","a","t","e","d"," ","s","t","a","t","e","m","e","n","t","s"," ","o","f"," ","c","a","s","h"," ","f","l","o","w","s">>,
      \* consolidated statement of cash flows
      <<"c","o","n","s","o","l","i","d","a","t","e","d"," ","s","t","a","t","e","m","e","n","t"," ","o","f"," ","c","a","s","h"," ","f","l","o","w","s">>,
      \* consolidated statement of cash flow
      <<"c","o","n","s","o","l","i","d","a","t","e","d"," ","s","t","a","t","e","m","e","n","t"," ","o","f"," ","c","a","s","h"," ","f","l","o","w">>,
      \* consolidated cash flows statements
      <<"c","o","n","s","o","l","i","d","a","t","e","d"," ","c","a","s","h"," ","f","l","o","w","s"," ","s","t","a","t","e","m","e","n","t","s">>,
      \* consolidated cash flow statements
      <<"c","o","n","s","o","l","i","d","a","t","e","d"," ","c","a","s","h"," ","f","l","o","w"," ","s","t","a","t","e","m","e","n","t","s">>,
      \* condensed consolidated statements of cash flows
      <<"c","o","n","d","e","n","s","e","d"," ","c","o","n","s","o","l","i","d","a","t","e","d"," ","s","t","a","t","e","m","e","n","t","s"," ","o","f"," ","c","a","s","h"," ","f","l","o","w","s">>,
      \* consolidated statements of cash flows (unaudited)
      <<"c","o","n","s","o","l","i","d","a","t","e","d"," ","s","t","a","t","e","m","e","n","t","s"," ","o","f"," ","c","a","s","h"," ","f","l","o","w","s"," ","(","u","n","a","u","d","i","t","e","d",")">>,
      \* consolidated statements of cash flows - southern
      <<"c","o","n","s","o","l","i","d","a","t","e","d"," ","s","t","a","t","e","m","e","n","t","s"," ","o","f"," ","c","a","s","h"," ","f","l","o","w","s"," ","-"," ","s","o","u","t","h","e","r","n">>
    >>

K_balance_sheet == <<"b","a","l","a","n","c","e","_","s","h","e","e","t">>
K_income_statement == <<"i","n","c","o","m","e","_","s","t","a","t","e","m","e","n","t">>
K_cash_flow_statement == <<"c","a","s","h","_","f","l","o","w","_","s","t","a","t","e","m","e","n","t">>


StatementTypes == {K_balance_sheet, K_income_statement, K_cash_flow_statement}

statement_keys_map ==
    [k \in StatementTypes |->
        IF k = K_balance_sheet THEN balance_sheet_keys
        ELSE IF k = K_income_statement THEN income_statement_keys
        ELSE cash_flow_statement_keys]

\* dict.get(key, [])
keys_map_get(k) == IF k \in DOMAIN statement_keys_map THEN statement_keys_map[k] ELSE <<>>

(***************************************************************************)
(* FilingSummary.xml: the Report elements of one filing                    *)
(***************************************************************************)
Tag(t) == [present |-> TRUE, text |-> t]
NoTag == [present |-> FALSE, text |-> <<>>]

Report(short, long, html, xml) ==
    [ShortName |-> short, LongName |-> long, HtmlFileName |-> html, XmlFileName |-> xml]

\* __get_file_name(report)
get_file_name(report) ==
    IF report.HtmlFileName.present THEN report.HtmlFileName.text
    ELSE IF report.XmlFileName.present THEN report.XmlFileName.text
    ELSE <<>>

\* "sub in s"
ContainsSub(s, sub) ==
    \E i \in 1..(Len(s) - Len(sub) + 1) : SubSeq(s, i, i + Len(sub) - 1) = sub

W_Statement == <<"S","t","a","t","e","m","e","n","t">>

\* __is_statement_file(short_name_tag, long_name_tag, file_name)
is_statement_file(short_name_tag, long_name_tag, file_name) ==
    /\ short_name_tag.present
    /\ long_name_tag.present
    /\ file_name # <<>>
    /\ ContainsSub(long_name_tag.text, W_Statement)

EmptyDict == [k \in {} |-> <<>>]

\* d[key] = value
DictSet(d, key, value) ==
    [k \in DOMAIN d \cup {key} |-> IF k = key THEN value ELSE d[k]]

\* the loop of get_statement_file_names_in_filing_summary over the first n
\* reports: statement_file_names_dict[short_name.text.lower()] = file_name
RECURSIVE statement_file_names_dict(_, _)
statement_file_names_dict(reports, n) ==
    IF n = 0 THEN EmptyDict
    ELSE LET d == statement_file_names_dict(reports, n - 1)
             report == reports[n]
             file_name == get_file_name(report)
         IN  IF is_statement_file(report.ShortName, report.LongName, file_name)
             THEN DictSet(d, Lower(report.ShortName.text), file_name)
             ELSE d

(***************************************************************************)
(* get_statement_soup: the locator loop                                    *)
(***************************************************************************)
BaseLink == <<"https://www.sec.gov/Archives/edgar/data/{cik}/{accession_number}">>

NoLink == <<>>

\* the for loop over statement_keys_map.get(statement_name.lower(), []),
\* from synonym i on: the link of the first synonym found in the catalog
RECURSIVE first_link_from(_, _, _)
first_link_from(possible_keys, d, i) ==
    IF i > Len(possible_keys) THEN NoLink
    ELSE LET key == Lower(possible_keys[i])
         IN  IF key \in DOMAIN d /\ d[key] # <<>>
             THEN BaseLink \o <<"/">> \o d[key]
             ELSE first_link_from(possible_keys, d, i + 1)

\* a loop without the break: the last synonym found in the catalog
RECURSIVE last_link_from(_, _, _)
last_link_from(possible_keys, d, i) ==
    IF i > Len(possible_keys) THEN NoLink
    ELSE LET key == Lower(possible_keys[i])
             later == last_link_from(possible_keys, d, i + 1)
         IN  IF later # NoLink THEN later
             ELSE IF key \in DOMAIN d /\ d[key] # <<>>
                  THEN BaseLink \o <<"/">> \o d[key]
                  ELSE NoLink

locate_statement_link_exact(name, d) == first_link_from(keys_map_get(name), d, 1)
locate_statement_link_last(name, d) == last_link_from(keys_map_get(Lower(name)), d, 1)
locate_statement_link(name, d) == first_link_from(keys_map_get(Lower(name)), d, 1)

EndsWith(s, suffix) ==
    Len(s) >= Len(suffix) /\ SubSeq(s, Len(s) - Len(suffix) + 1, Len(s)) = suffix

DotXml == <<".","x","m","l">>

(***************************************************************************)
(* Inputs of the pipeline                                                  *)
(***************************************************************************)
StatementNames ==
    { <<"b","a","l","a","n","c","e","_","s","h","e","e","t">>, <<"B","a","l","a","n","c","e","_","S","h","e","e","t">>, <<"i","n","c","o","m","e","_","s","t","a","t","e","m","e","n","t">>, <<"e","q","u","i","t","y","_","s","t","a","t","e","m","e","n","t">> }

L_Statement == <<"S","t","a","t","e","m","e","n","t"," ","-"," ","R">>
L_Document == <<"D","o","c","u","m","e","n","t"," ","-"," ","R">>
L_lower == <<"s","t","a","t","e","m","e","n","t"," ","-"," ","R">>

ReportPool ==
    { Report(Tag(<<"b","a","l","a","n","c","e"," ","s","h","e","e","t","s">>), Tag(L_Statement), Tag(<<"R","2",".","h","t","m">>), NoTag),
      Report(Tag(<<"B","a","l","a","n","c","e"," ","S","h","e","e","t">>), Tag(L_Statement), Tag(<<"R","3",".","h","t","m">>), Tag(<<"R","3",".","x","m","l">>)),
      Report(Tag(<<"B","A","L","A","N","C","E"," ","S","H","E","E","T">>), Tag(L_Statement), Tag(<<"R","8",".","h","t","m">>), NoTag),
      Report(Tag(<<"I","n","c","o","m","e"," ","S","t","a","t","e","m","e","n","t">>), Tag(L_Statement), NoTag, Tag(<<"R","4",".","x","m","l">>)),
      Report(Tag(<<"B","a","l","a","n","c","e"," ","S","h","e","e","t">>), Tag(L_lower), Tag(<<"R","5",".","h","t","m">>), NoTag),
      Report(NoTag, Tag(L_Statement), Tag(<<"R","6",".","h","t","m">>), NoTag),
      Report(Tag(<<"B","a","l","a","n","c","e"," ","S","h","e","e","t","s">>), Tag(L_Statement), NoTag, NoTag),
      Report(Tag(<<"I","n","c","o","m","e"," ","S","t","a","t","e","m","e","n","t">>), NoTag, Tag(<<"R","9",".","h","t","m">>), NoTag) }

MaxReports == 2      \* Report elements in one FilingSummary.xml

RECURSIVE ReportLists(_)
ReportLists(n) ==
    IF n = 0 THEN {<<>>}
    ELSE LET shorter == ReportLists(n - 1)
         IN  shorter \cup {Append(l, r) : l \in shorter, r \in ReportPool}

(***************************************************************************)
(* The statement document and process_dict                                 *)
(***************************************************************************)
DateInt == [kind |-> "int", s |-> <<>>, first |-> <<>>]

\* the DataFrame pd.read_html builds from the first table of the document:
\* the first column (its header names the statement, its cells are the line
\* items) and one column per period
NoTable == [has_table |-> FALSE, name_col |-> DateInt, attributes |-> <<>>, columns |-> <<>>]

Table(name_col, attributes, columns) ==
    [has_table |-> TRUE, name_col |-> name_col, attributes |-> attributes, columns |-> columns]

\* unit_multiplier = 1 (never reassigned in process_dict)
unit_multiplier == 1

\* values_map[date] = values, keeping the insertion order of a dict
RECURSIVE MapPut(_, _, _)
MapPut(items, key, values) ==
    IF items = <<>> THEN << [date |-> key, values |-> values] >>
    ELSE IF items[1].date = key THEN << [date |-> key, values |-> values] >> \o Tail(items)
    ELSE << items[1] >> \o MapPut(Tail(items), key, values)

\* the loop "for date, values in dict_items[1:]" after its first n rounds
RECURSIVE values_map(_, _)
values_map(df, n) ==
    IF n = 0 THEN [exc |-> "", items |-> <<>>]
    ELSE LET prev == values_map(df, n - 1)
             col == df.columns[n]
             std == [i \in DOMAIN col.cells |->
                        standardize_number(col.cells[i], unit_multiplier)]
         IN  IF prev.exc # "" THEN prev
             ELSE IF col.date.kind = "int" THEN [exc |-> "TypeError", items |-> prev.items]
             ELSE IF Len(col.date.s) > 15 THEN prev
             ELSE IF \E i \in DOMAIN std : std[i].kind = "raise"
                  THEN [exc |-> "AttributeError", items |-> prev.items]
             ELSE [exc |-> "",
                   items |-> MapPut(prev.items, standardize_date(col.date), std)]

ProcessRaised(e) ==
    [kind |-> "raise", exc |-> e, attributes |-> <<>>, date_index |-> <<>>,
     values |-> <<>>, statement_name |-> <<>>]

\* process_dict(df_dict); parses: whether pd.to_datetime accepts the keys
process_dict(df, parses) ==
    LET vm == values_map(df, Len(df.columns))
    IN  IF df.name_col.kind = "int" THEN ProcessRaised("AttributeError")
        ELSE IF vm.exc # "" THEN ProcessRaised(vm.exc)
        ELSE IF vm.items # <<>> /\ ~parses THEN ProcessRaised("DateParseError")
        ELSE [kind |-> "ok", exc |-> "",
              attributes |-> df.attributes,
              date_index |-> [i \in DOMAIN vm.items |-> vm.items[i].date],
              values |-> [i \in DOMAIN vm.items |-> vm.items[i].values],
              statement_name |->
                  Lower(IF df.name_col.kind = "tuple" THEN df.name_col.first
                        ELSE df.name_col.s)]

\* the second try block of get_one_statement
process_statement(doc, parses) ==
    IF ~doc.has_table THEN ProcessRaised("ValueError")
    ELSE process_dict(doc, parses)

(***************************************************************************)
(* Statement documents served by the archive                               *)
(***************************************************************************)
Column(d, cells) == [date |-> d, cells |-> cells]

H_Statement == DateStr(<<"B","a","l","a","n","c","e"," ","S","h","e","e","t"," ","-"," ","U","S","D"," ","(","$",")">>)
D_Jan == DateStr(<<"J","a","n","."," ","3","1",","," ","2","0","2","0">>)
D_JanTuple == DateTuple(<<"1","2"," ","M","o","n","t","h","s"," ","E","n","d","e","d">>, <<"J","a","n","."," ","3","1",","," ","2","0","2","0">>)
D_Dec == DateStr(<<"D","e","c","."," ","3","1",","," ","2","0","1","9">>)
D_Sep == DateStr(<<"S","e","p","t","e","m","b","e","r"," ","3","0",","," ","2","0","2","0">>)
C_Five == Str(<<"$"," ","(","5",")">>)
H_Millions == DateStr(<<"B","a","l","a","n","c","e"," ","S","h","e","e","t"," ","-"," ","U","S","D"," ","(","$",")"," ","$"," ","i","n"," ","M","i","l","l","i","o","n","s">>)
C_Two == Str(<<"$","2">>)

\* the documents a statement link may serve
DocPool ==
    { \* no table element
      NoTable,
      \* a table without header row: integer column headers
      Table(DateInt, << <<"C","a","s","h">> >>, << Column(D_Jan, <<C_Five>>) >>),
      \* one period
      Table(H_Statement, << <<"C","a","s","h">> >>, << Column(D_Jan, <<C_Five>>) >>),
      \* two periods under a two-level header, empty cells
      Table(DateTuple(<<"B","A","L","A","N","C","E"," ","S","H","E","E","T">>, <<"U","S","D">>), << <<"C","a","s","h">>, <<"D","e","b","t">> >>,
            << Column(D_JanTuple, <<C_Five, NanFloat>>),
               Column(D_Dec, <<NanFloat, C_Five>>) >>),
      \* a cell pandas has already parsed as a number
      Table(H_Statement, << <<"C","a","s","h">> >>, << Column(D_Jan, <<Numeric>>) >>),
      \* a header longer than 15 characters
      Table(H_Statement, << <<"C","a","s","h">> >>, << Column(D_Sep, <<C_Five>>) >>),
      \* no period column
      Table(H_Statement, << <<"C","a","s","h">> >>, << >>),
      \* two headers naming the same date
      Table(H_Statement, << <<"C","a","s","h">> >>,
            << Column(D_Jan, <<C_Five>>), Column(D_JanTuple, <<NanFloat>>) >>),
      \* figures reported in millions
      Table(H_Millions, << <<"C","a","s","h">> >>, << Column(D_Dec, <<C_Two>>) >>) }

(***************************************************************************)
(* Values passed between the stages                                        *)
(***************************************************************************)
SoupPending == [kind |-> "pending", exc |-> "", doc |-> NoTable]
SoupRaised(e) == [kind |-> "raise", exc |-> e, doc |-> NoTable]
SoupNone == [kind |-> "None", exc |-> "", doc |-> NoTable]
Soup(doc) == [kind |-> "soup", exc |-> "", doc |-> doc]

NoGrid == [labels |-> <<>>, dates |-> <<>>, cells |-> <<>>]

ResultPending == [kind |-> "pending", exc |-> "", grid |-> NoGrid, notes |-> <<>>]
ResultNone == [kind |-> "None", exc |-> "", grid |-> NoGrid, notes |-> <<>>]
ResultRaised(e) == [kind |-> "raise", exc |-> e, grid |-> NoGrid, notes |-> <<>>]

\* (df.T, notes): the frame built from values, columns=attributes, index=date_index
ResultPair(p) ==
    [kind |-> "pair", exc |-> "",
     grid |-> [labels |-> p.attributes, dates |-> p.date_index, cells |-> p.values],
     notes |-> p.statement_name]

\* "if not statement_link"
link_missing_never(link) == FALSE
link_missing(link) == link = NoLink

\* "except Exception as e" of get_one_statement
caught_only_ValueError(e) == e = "ValueError"
caught_by_except_Exception(e) ==
    e \in {"ValueError", "UnicodeDecodeError", "AttributeError", "TypeError",
           "DateParseError", "InvalidStatementLinkException"}

(***************************************************************************)
(* The role-based extractor (test/edgar_functions.py)                      *)
(***************************************************************************)
\* a float as digits * 10^(-scale), without trailing zeros; NaN apart
RECURSIVE Normalized(_, _)
Normalized(digits, scale) ==
    IF scale > 0 /\ digits % 10 = 0 THEN Normalized(digits \div 10, scale - 1)
    ELSE [kind |-> "float", digits |-> digits, scale |-> scale]

NaN == [kind |-> "nan", digits |-> 0, scale |-> 0]

FloatTimes(x, k) == Normalized(x.digits * k, x.scale)
FloatNeg(x) == [kind |-> "float", digits |-> 0 - x.digits, scale |-> x.scale]

\* __keep_numbers_and_decimals_only_in_string
keep_numbers_and_decimals_only_in_string(mixed_string) ==
    SelectSeq(mixed_string, LAMBDA x : IsDigit(x) \/ x = ".")

\* cell.text.replace("$", "").replace(",", "").replace("(", "").replace(")", "").strip()
cell_text_cleaned(text) ==
    keep_numbers_and_decimals_only_in_string(
        Strip(Remove(Remove(Remove(Remove(text, "$"), ","), "("), ")")))

CountOf(s, c) == Cardinality({i \in DOMAIN s : s[i] = c})

\* float(value) succeeds on a string of digits and points
float_parses(s) == CountOf(s, ".") <= 1 /\ \E i \in DOMAIN s : IsDigit(s[i])

RECURSIVE PointPosition(_)
PointPosition(s) ==
    IF s = <<>> THEN 0 ELSE IF s[1] = "." THEN 1
    ELSE LET r == PointPosition(Tail(s)) IN IF r = 0 THEN 0 ELSE r + 1

float_value(s) ==
    LET p == PointPosition(s)
    IN  Normalized(DigitsVal(Remove(s, ".")), IF p = 0 THEN 0 ELSE Len(s) - p)

W_in_Thousands == <<"i","n"," ","T","h","o","u","s","a","n","d","s">>
W_in_Millions == <<"i","n"," ","M","i","l","l","i","o","n","s">>
W_unless == <<"u","n","l","e","s","s"," ","o","t","h","e","r","w","i","s","e"," ","s","p","e","c","i","f","i","e","d">>

\* the unit multiplier of a table, from the text of its first th
table_unit_multiplier(table_header) ==
    IF ~table_header.present THEN 1
    ELSE IF ContainsSub(table_header.text, W_in_Thousands) THEN 1
    ELSE IF ContainsSub(table_header.text, W_in_Millions) THEN 1000
    ELSE 1

table_special_case(table_header) ==
    table_header.present /\ ContainsSub(table_header.text, W_unless)

\* s.split(sep)[-1] and s.split(sep)[0]
RECURSIVE AfterLast(_, _)
AfterLast(s, sep) ==
    IF ~ContainsSub(s, sep) THEN s
    ELSE IF StartsWith(s, sep) THEN AfterLast(SubSeq(s, Len(sep) + 1, Len(s)), sep)
    ELSE AfterLast(Tail(s), sep)

RECURSIVE BeforeFirst(_, _)
BeforeFirst(s, sep) ==
    IF Len(s) < Len(sep) THEN s
    ELSE IF StartsWith(s, sep) THEN <<>>
    ELSE <<s[1]>> \o BeforeFirst(Tail(s), sep)

\* onclick_attr.split("defref_")[-1].split("',")[0]
column_title(onclick_attr) ==
    BeforeFirst(AfterLast(onclick_attr, <<"d","e","f","r","e","f","_">>), <<"'", ",">>)

\* values = [np.NaN] * len(date_time_index)
initial_values_none(n_dates) == <<>>
initial_values(n_dates) == [i \in 1..n_dates |-> NaN]

\* the loop "for i, cell in enumerate(row.select(...))" after its first n
\* rounds
RECURSIVE row_values(_, _, _, _, _)
row_values(cells, n, mult, special_case, n_dates) ==
    IF n = 0 THEN [exc |-> "", values |-> initial_values(n_dates)]
    ELSE LET prev == row_values(cells, n - 1, mult, special_case, n_dates)
             cell == cells[n]
             value == cell_text_cleaned(cell.text)
         IN  IF prev.exc # "" THEN prev
             ELSE IF cell.class = "text" THEN prev
             ELSE IF value = <<>> THEN prev
             ELSE IF ~float_parses(value) THEN [exc |-> "ValueError", values |-> prev.values]
             ELSE IF special_case THEN prev
             ELSE IF n > n_dates THEN [exc |-> "IndexError", values |-> prev.values]
             ELSE [exc |-> "",
                   values |-> [prev.values EXCEPT ![n] =
                       IF cell.class = "nump"
                       THEN FloatTimes(float_value(value), mult)
                       ELSE FloatTimes(FloatNeg(float_value(value)), mult)]]

\* the loop over table.select("tr") after its first n rows
RECURSIVE table_rows(_, _, _)
table_rows(table, n, n_dates) ==
    IF n = 0 THEN [exc |-> "", columns |-> <<>>, values_set |-> <<>>]
    ELSE LET prev == table_rows(table, n - 1, n_dates)
             row == table.rows[n]
             rv == row_values(row.cells, Len(row.cells),
                              table_unit_multiplier(table.header),
                              table_special_case(table.header), n_dates)
         IN  IF prev.exc # "" THEN prev
             ELSE IF ~row.onclick.present THEN prev
             ELSE IF rv.exc # ""
                  THEN [exc |-> rv.exc, columns |-> prev.columns,
                        values_set |-> prev.values_set]
             ELSE [exc |-> "",
                   columns |-> Append(prev.columns, column_title(row.onclick.text)),
                   values_set |-> Append(prev.values_set, rv.values)]

\* the loop over soup.find_all("table") after its first n tables
RECURSIVE soup_tables(_, _, _)
soup_tables(tables, n, n_dates) ==
    IF n = 0 THEN [exc |-> "", columns |-> <<>>, values_set |-> <<>>]
    ELSE LET prev == soup_tables(tables, n - 1, n_dates)
             tr == table_rows(tables[n], Len(tables[n].rows), n_dates)
         IN  IF prev.exc # "" THEN prev
             ELSE IF tr.exc # ""
                  THEN [exc |-> tr.exc, columns |-> prev.columns,
                        values_set |-> prev.values_set]
             ELSE [exc |-> "",
                   columns |-> prev.columns \o tr.columns,
                   values_set |-> prev.values_set \o tr.values_set]

\* __get_datetime_index_dates_from_statement: the strings given to
\* pd.to_datetime
datetime_index_strings(dates) ==
    [i \in DOMAIN dates |-> Remove(standardize_date(DateStr(dates[i])), ".")]

ExtractRaised(e) ==
    [kind |-> "raise", exc |-> e, columns |-> <<>>, values_set |-> <<>>,
     date_time_index |-> <<>>]

ExtractPending ==
    [kind |-> "pending", exc |-> "", columns |-> <<>>, values_set |-> <<>>,
     date_time_index |-> <<>>]

\* the same with the exceptions of the rows left out
extract_columns_values_and_dates_ignoring_rows(s, parses) ==
    LET date_time_index == datetime_index_strings(s.dates)
        st == soup_tables(s.tables, Len(s.tables), Len(date_time_index))
    IN  IF date_time_index # <<>> /\ ~parses THEN ExtractRaised("DateParseError")
        ELSE [kind |-> "ok", exc |-> "", columns |-> st.columns,
              values_set |-> st.values_set, date_time_index |-> date_time_index]

\* __extract_columns_values_and_dates_from_statement(soup); parses: whether
\* pd.to_datetime accepts the header strings
extract_columns_values_and_dates_from_statement(s, parses) ==
    LET date_time_index == datetime_index_strings(s.dates)
        st == soup_tables(s.tables, Len(s.tables), Len(date_time_index))
    IN  IF date_time_index # <<>> /\ ~parses THEN ExtractRaised("DateParseError")
        ELSE IF st.exc # "" THEN ExtractRaised(st.exc)
        ELSE [kind |-> "ok", exc |-> "", columns |-> st.columns,
              values_set |-> st.values_set, date_time_index |-> date_time_index]

(***************************************************************************)
(* The assembler (test/edgar_functions.py)                                 *)
(***************************************************************************)
\* a DataFrame after df.T: one entry of labels and of rows per line item,
\* each row holding one value per date
FramePending == [kind |-> "pending", labels |-> <<>>, dates |-> <<>>, rows |-> <<>>]
FrameNone == [kind |-> "None", labels |-> <<>>, dates |-> <<>>, rows |-> <<>>]
Frame(labels, dates, rows) ==
    [kind |-> "df", labels |-> labels, dates |-> dates, rows |-> rows]

\* __create_dataframe_of_statement_values_columns_dates, seen after df.T:
\* zip(*values_set) and the DataFrame constructor, transposed back
create_dataframe(values_set, columns, index_dates) ==
    Frame(columns, index_dates, values_set)

\* df.empty
frame_empty(df) == df.labels = <<>> \/ df.dates = <<>>

\* DataFrame.duplicated(): a row whose values all equal those of an earlier row
duplicated(df, i) == \E j \in 1..(i - 1) : df.rows[j] = df.rows[i]

\* the positions 1..n of the frame that drop_duplicates keeps, in order
RECURSIVE kept_rows(_, _)
kept_rows(df, n) ==
    IF n = 0 THEN <<>>
    ELSE IF duplicated(df, n) THEN kept_rows(df, n - 1)
    ELSE Append(kept_rows(df, n - 1), n)

\* df.T.drop_duplicates()
drop_duplicates(df) ==
    LET kept == kept_rows(df, Len(df.rows))
    IN  Frame([k \in DOMAIN kept |-> df.labels[kept[k]]], df.dates,
              [k \in DOMAIN kept |-> df.rows[kept[k]]])

\* get_one_statement from the extraction on: None after an exception or for
\* an empty frame
statement_frame(extracted) ==
    IF extracted.kind = "raise" THEN FrameNone
    ELSE LET df == create_dataframe(extracted.values_set, extracted.columns,
                                    extracted.date_time_index)
         IN  IF ~frame_empty(df) THEN drop_duplicates(df) ELSE FrameNone

(***************************************************************************)
(* Statement documents given to the extractor                              *)
(***************************************************************************)
MaxExtCells == 2     \* value cells in a row
MaxExtRows == 1      \* rows in a table
MaxExtTables == 2    \* tables in a document
MaxExtDates == 4     \* dated header cells in a document

Cell(class, text) == [class |-> class, text |-> text]

CellPool ==
    { Cell("nump", <<"$"," ","1",",","2","3","4">>), Cell("num", <<"(","5",")">>), Cell("nump", <<"(","7",")">>),
      Cell("text", <<"N","o","t","e">>), Cell("nump", <<"1",".","2",".","3">>), Cell("nump", <<"$","2",",","0","0","0",",","0","0","0">>) }

\* the cells after the first
LaterCellPool ==
    { Cell("nump", <<"(","7",")">>), Cell("num", <<"(","5",")">>), Cell("text", <<"N","o","t","e">>) }

RECURSIVE CellLists(_)
CellLists(n) ==
    IF n = 0 THEN {<<>>}
    ELSE LET shorter == CellLists(n - 1)
         IN  shorter \cup
             {Append(l, c) : l \in shorter \ {<<>>}, c \in LaterCellPool}
                 \cup {<<c>> : c \in CellPool}

OnclickCash == <<"t","o","p",".","S","h","o","w",".","s","h","o","w","A","R","("," ","t","h","i","s",","," ","'","d","e","f","r","e","f","_","u","s","-","g","a","a","p","_","C","a","s","h","'",","," ","w","i","n","d","o","w"," ",")",";">>
OnclickDebt == <<"t","o","p",".","S","h","o","w",".","s","h","o","w","A","R","("," ","t","h","i","s",","," ","'","d","e","f","r","e","f","_","u","s","-","g","a","a","p","_","D","e","b","t","'",","," ","w","i","n","d","o","w"," ",")",";">>

Row(onclick, cells) == [onclick |-> onclick, cells |-> cells]

\* the first row of a table: any cells, or a spacer row without label link
RowPool ==
    {Row(Tag(OnclickCash), c) : c \in CellLists(MaxExtCells)}
        \cup {Row(NoTag, << Cell("nump", <<"$","2">>) >>)}

\* the rows after the first
LaterRowPool ==
    { Row(Tag(OnclickCash), << Cell("nump", <<"$"," ","1",",","2","3","4">>) >>),
      Row(Tag(OnclickDebt), << Cell("num", <<"(","5",")">>), Cell("nump", <<"(","7",")">>) >>) }

RECURSIVE RowLists(_)
RowLists(n) ==
    IF n = 0 THEN {<<>>}
    ELSE LET shorter == RowLists(n - 1)
         IN  shorter \cup
             {Append(l, r) : l \in shorter \ {<<>>}, r \in LaterRowPool}
                 \cup {<<r>> : r \in RowPool}

TableHeaders ==
    { NoTag,
      Tag(<<"U","S","D"," ","(","$",")"," ","$"," ","i","n"," ","T","h","o","u","s","a","n","d","s">>),
      Tag(<<"U","S","D"," ","(","$",")"," ","$"," ","i","n"," ","M","i","l","l","i","o","n","s">>),
      Tag(<<"$"," ","i","n"," ","M","i","l","l","i","o","n","s",","," ","u","n","l","e","s","s"," ","o","t","h","e","r","w","i","s","e"," ","s","p","e","c","i","f","i","e","d">>) }

HtmlTable(header, rows) == [header |-> header, rows |-> rows]

\* the first table of a document
TablePool == {HtmlTable(h, r) : h \in TableHeaders, r \in RowLists(MaxExtRows)}

\* the tables after the first
LaterTablePool ==
    { HtmlTable(Tag(<<"U","S","D"," ","(","$",")"," ","$"," ","i","n"," ","M","i","l","l","i","o","n","s">>),
                << Row(Tag(OnclickDebt), << Cell("nump", <<"$"," ","1",",","2","3","4">>) >>) >>),
      HtmlTable(NoTag, << Row(Tag(OnclickCash), << Cell("num", <<"(","5",")">>) >>) >>) }

RECURSIVE TableLists(_)
TableLists(n) ==
    IF n = 0 THEN {<<>>}
    ELSE LET shorter == TableLists(n - 1)
         IN  shorter \cup
             {Append(l, x) : l \in shorter \ {<<>>}, x \in LaterTablePool}
                 \cup {<<x>> : x \in TablePool}

HeaderDates ==
    << <<"J","a","n","."," ","3","1",","," ","2","0","2","0">>,
       <<"D","e","c","."," ","3","1",","," ","2","0","1","9">>,
       <<"J","a","n","."," ","3","1",","," ","2","0","1","9">>,
       <<"D","e","c","."," ","3","1",","," ","2","0","1","8">>,
       <<"J","a","n","."," ","3","1",","," ","2","0","1","8">>,
       <<"D","e","c","."," ","3","1",","," ","2","0","1","7">> >>

ExtSoups ==
    {[dates |-> SubSeq(HeaderDates, 1, n), tables |-> x] :
        n \in 0..MaxExtDates, x \in TableLists(MaxExtTables)}

NoExtSoup == [dates |-> <<>>, tables |-> <<>>]

(***************************************************************************)
(* make_get_request (utils.py)                                             *)
(***************************************************************************)
\* the arguments that matter: payload ("None" or "payload") and resp_json
Args(payload, resp_json) == [payload |-> payload, resp_json |-> resp_json]

\* one activation: in the try block, or in the handler of
\* TooManyRequestException waiting for the recursive call
Activation(retry_count, payload, resp_json, at) ==
    [retry_count |-> retry_count, payload |-> payload, resp_json |-> resp_json,
     at |-> at]

\* values and exceptions leaving an activation; get: the GET whose body a
\* value is (0 for None)
NoSignal == [kind |-> "none", exc |-> "", form |-> "", get |-> 0]
Returned(body_form, get) ==
    [kind |-> "return", exc |-> "", form |-> body_form, get |-> get]
ReturnedNone == Returned("None", 0)
RaisedOut(e) == [kind |-> "raise", exc |-> e, form |-> "", get |-> 0]

\* "if retry_count < 3"
retry_count_below_4(retry_count) == retry_count < 4
retry_count_below_limit(retry_count) == retry_count < 3

\* the classes of sec_edgar_scraper.exceptions: each is caught by the except
\* clause naming it and by "except Exception"
exception_caught_by(exc, clause) == clause = exc \/ clause = "Exception"

\* the first except clause of make_get_request that catches exc
handling_clause(exc) ==
    IF exception_caught_by(exc, "TooManyRequestException")
    THEN "TooManyRequestException"
    ELSE IF exception_caught_by(exc, "GetRequestException")
    THEN "GetRequestException"
    ELSE "Exception"

\* what requests.get may give: no response (a RequestException), or a status
\* code and a body that is a JSON document or other text
Response(status, body) == [status |-> status, body |-> body]
NoResponse == Response(0, "")
Responses ==
    {NoResponse, Response(429, "text")}
        \cup {Response(s, b) : s \in {200, 404}, b \in {"json", "text"}}

\* lines 49-54 on a response: the value returned or the exception raised in
\* the try block; n: the number of this GET
try_outcome(resp, resp_json, n) ==
    IF resp = NoResponse THEN RaisedOut("RequestException")
    ELSE IF resp.status = 429 THEN RaisedOut("TooManyRequestException")
    ELSE IF resp_json
         THEN IF resp.body = "json" THEN Returned("dict", n)
              ELSE RaisedOut("JSONDecodeError")
    ELSE Returned("str", n)

\* one requests.get call as recorded in req_gets
Get(retry_count, payload, resp_json, resp) ==
    [retry_count |-> retry_count, payload |-> payload, resp_json |-> resp_json,
     status |-> resp.status, body |-> resp.body]

(***************************************************************************)
(* get_filtered_filings (scraper.py)                                       *)
(***************************************************************************)
MaxFilings == 2      \* recent filings of the company

\* form=None
NoForm == [kind |-> "None", s |-> <<>>]

\* one row of the frame of recent filings
Filing(f, accession, report_date) ==
    [form |-> f, accessionNumber |-> accession, reportDate |-> report_date]

\* company_filings_df["form"] == form, for one row: a comparison with None
\* is False for every row
form_equals(value, f) == f.kind = "str" /\ value = f.s

\* df.accessionNumber.replace("-", "", regex=True), for one row
without_dashes(row) ==
    [row EXCEPT !.accessionNumber = Remove(row.accessionNumber, "-")]

\* the frame or series returned; index: the column the rows are indexed by
FilteredPending == [kind |-> "pending", exc |-> "", index |-> "", columns |-> <<>>, rows |-> <<>>]
FilteredRaised(e) == [kind |-> "raise", exc |-> e, index |-> "", columns |-> <<>>, rows |-> <<>>]

\* get_filtered_filings on the frame of recent filings
filtered_filings(filings, f, just) ==
    LET df == SelectSeq(filings, LAMBDA row : form_equals(row.form, f))
        rows == [i \in DOMAIN df |-> without_dashes(df[i])]
    IN  IF just
        THEN [kind |-> "series", exc |-> "", index |-> "reportDate",
              columns |-> <<"accessionNumber">>, rows |-> rows]
        ELSE [kind |-> "frame", exc |-> "", index |-> "range",
              columns |-> <<"accessionNumber", "form", "reportDate">>, rows |-> rows]

F_10K == <<"1","0","-","K">>
F_10Q == <<"1","0","-","Q">>
F_8K == <<"8","-","K">>

FilingPool ==
    { Filing(F_10K, <<"0","0","0","1","-","2","0","-","0","1">>, <<"2","0","1","9","-","1","2","-","3","1">>),
      Filing(F_10Q, <<"0","0","0","1","-","2","0","-","0","2">>, <<"2","0","2","0","-","0","3","-","3","1">>),
      Filing(F_10K, <<"0","0","0","1","2","0","-","0","3">>, <<"2","0","2","0","-","1","2","-","3","1">>),
      Filing(F_8K, <<"0","0","0","1","-","2","1">>, <<"2","0","2","1","-","0","1","-","1","5">>) }

RECURSIVE FilingLists(_)
FilingLists(n) ==
    IF n = 0 THEN {<<>>}
    ELSE LET shorter == FilingLists(n - 1)
         IN  shorter \cup {Append(l, x) : l \in shorter, x \in FilingPool}

FormArguments == {NoForm, Str(F_10K), Str(F_10Q), Str(<<"1","0","K">>)}

(***************************************************************************)
(* Idle values of the variables a specification does not use               *)
(***************************************************************************)
NumIdle ==
    /\ number_str = NanFloat
    /\ multiplier = 1
    /\ number_out = Pending

DateIdle ==
    /\ date = DateStr(<<>>)
    /\ date_in = DateStr(<<>>)
    /\ date_calls = 0

PipeIdle ==
    /\ pc = "idle"
    /\ statement_name = <<>>
    /\ filing_summary = <<>>
    /\ catalog = EmptyDict
    /\ statement_link = NoLink
    /\ soup = SoupPending
    /\ result = ResultPending
    /\ log = <<>>
    /\ stages = <<>>

ExtIdle ==
    /\ ext_soup = NoExtSoup
    /\ ext_out = ExtractPending
    /\ ext_df = FramePending

FilIdle ==
    /\ form = NoForm
    /\ just_accession_numbers = TRUE
    /\ recent_filings = <<>>
    /\ filtered = FilteredPending

ReqIdle ==
    /\ req_args = Args("None", TRUE)
    /\ req_stack = <<>>
    /\ req_signal = NoSignal
    /\ req_gets = <<>>
    /\ req_out = NoSignal

(***************************************************************************)
(* SpecNum: one call of __standardize_number on an arbitrary argument      *)
(***************************************************************************)
InitNum ==
    /\ number_str \in NumberInputs
    /\ multiplier \in Multipliers
    /\ number_out = Pending
    /\ DateIdle
    /\ PipeIdle
    /\ ExtIdle
    /\ ReqIdle
    /\ FilIdle

StandardizeNumber ==
    /\ number_out = Pending
    /\ number_out' = standardize_number(number_str, multiplier)
    /\ UNCHANGED <<number_str, multiplier, dateVars, pipeVars, extVars, reqVars, filVars>>

NextNum == StandardizeNumber

SpecNum == InitNum /\ [][NextNum]_vars

(***************************************************************************)
(* SpecDate: __standardize_date applied once, then again to its own result *)
(***************************************************************************)
InitDate ==
    /\ date_in \in DateInputs
    /\ date = date_in
    /\ date_calls = 0
    /\ NumIdle
    /\ PipeIdle
    /\ ExtIdle
    /\ ReqIdle
    /\ FilIdle

StandardizeDate ==
    /\ date_calls < MaxDateCalls
    /\ date' = DateStr(standardize_date(date))
    /\ date_calls' = date_calls + 1
    /\ UNCHANGED <<date_in, numVars, pipeVars, extVars, reqVars, filVars>>

NextDate == StandardizeDate

SpecDate == InitDate /\ [][NextDate]_vars

(***************************************************************************)
(* Spec: one call of get_one_statement, stage by stage                     *)
(***************************************************************************)
Init ==
    /\ pc = "call"
    /\ statement_name \in StatementNames
    /\ filing_summary \in ReportLists(MaxReports)
    /\ catalog = EmptyDict
    /\ statement_link = NoLink
    /\ soup = SoupPending
    /\ result = ResultPending
    /\ log = <<>>
    /\ stages = <<>>
    /\ NumIdle
    /\ DateIdle
    /\ ExtIdle
    /\ ReqIdle
    /\ FilIdle

\* get_statement_file_names_in_filing_summary, called by get_statement_soup:
\* the summary is fetched and parsed; a RequestException gives {} and any
\* other exception (the decode) leaves get_statement_soup
GetStatementFileNames ==
    /\ pc = "call"
    /\ \E outcome \in {"ok", "RequestException", "UnicodeDecodeError"} :
        \/ /\ outcome = "ok"
           /\ catalog' = statement_file_names_dict(filing_summary, Len(filing_summary))
           /\ pc' = "catalog"
           /\ soup' = soup
        \/ /\ outcome = "RequestException"
           /\ catalog' = EmptyDict
           /\ pc' = "catalog"
           /\ soup' = soup
        \/ /\ outcome = "UnicodeDecodeError"
           /\ catalog' = catalog
           /\ pc' = "soup_done"
           /\ soup' = SoupRaised("UnicodeDecodeError")
    /\ stages' = Append(stages, "summary")
    /\ UNCHANGED <<statement_name, filing_summary, statement_link, result, log,
                   numVars, dateVars, extVars, reqVars, filVars>>

\* get_statement_soup, the locator loop and "if not statement_link: raise"
LocateStatement ==
    /\ pc = "catalog"
    /\ LET link == locate_statement_link(statement_name, catalog)
       IN  IF link_missing(link)
           THEN /\ soup' = SoupRaised("ValueError")
                /\ pc' = "soup_done"
                /\ statement_link' = statement_link
           ELSE /\ statement_link' = link
                /\ pc' = "located"
                /\ soup' = soup
    /\ stages' = Append(stages, "locate")
    /\ UNCHANGED <<statement_name, filing_summary, catalog, result, log,
                   numVars, dateVars, extVars, reqVars, filVars>>

\* get_statement_soup, the try block: the statement document is requested
FetchStatement ==
    /\ pc = "located"
    /\ \/ \* session.get or raise_for_status raises a RequestException
          /\ soup' = SoupRaised("ValueError")
          /\ log' = log
       \/ \* InvalidStatementLinkException is raised and handled in place
          /\ EndsWith(statement_link, DotXml)
          /\ soup' = SoupNone
          /\ log' = Append(log, "XML Files are currently not supported")
       \/ /\ ~EndsWith(statement_link, DotXml)
          /\ \E doc \in DocPool : soup' = Soup(doc)
          /\ log' = log
    /\ pc' = "soup_done"
    /\ stages' = Append(stages, "fetch")
    /\ UNCHANGED <<statement_name, filing_summary, catalog, statement_link, result,
                   numVars, dateVars, extVars, reqVars, filVars>>

\* get_one_statement after get_statement_soup has returned or raised
ProcessStatement ==
    /\ pc = "soup_done"
    /\ \/ /\ soup.kind = "raise"
          /\ IF caught_by_except_Exception(soup.exc)
             THEN /\ log' = Append(log, "Failed to get statement soup")
                  /\ result' = ResultNone
             ELSE /\ log' = log
                  /\ result' = ResultRaised(soup.exc)
       \/ /\ soup.kind = "None"
          /\ log' = log
          /\ result' = ResultNone
       \/ /\ soup.kind = "soup"
          /\ \E parses \in BOOLEAN :
                LET p == process_statement(soup.doc, parses)
                IN  IF p.kind = "raise"
                    THEN IF caught_by_except_Exception(p.exc)
                         THEN /\ log' = Append(log, "Error processing statement")
                              /\ result' = ResultNone
                         ELSE /\ log' = log
                              /\ result' = ResultRaised(p.exc)
                    ELSE /\ log' = log
                         /\ result' = ResultPair(p)
    /\ pc' = "done"
    /\ stages' = IF soup.kind = "soup" THEN Append(stages, "process") ELSE stages
    /\ UNCHANGED <<statement_name, filing_summary, catalog, statement_link, soup,
                   numVars, dateVars, extVars, reqVars, filVars>>

Next ==
    \/ GetStatementFileNames
    \/ LocateStatement
    \/ FetchStatement
    \/ ProcessStatement

Spec == Init /\ [][Next]_vars

(***************************************************************************)
(* SpecExt: one call of the role-based extractor on an arbitrary document  *)
(***************************************************************************)
InitExt ==
    /\ ext_soup \in ExtSoups
    /\ ext_out = ExtractPending
    /\ ext_df = FramePending
    /\ NumIdle
    /\ DateIdle
    /\ PipeIdle
    /\ ReqIdle
    /\ FilIdle

ExtractStatement ==
    /\ ext_out = ExtractPending
    /\ \E parses \in BOOLEAN :
          ext_out' = extract_columns_values_and_dates_from_statement(ext_soup, parses)
    /\ UNCHANGED <<ext_soup, ext_df, numVars, dateVars, pipeVars, reqVars, filVars>>

\* get_one_statement of test/edgar_functions.py, the rest of its try block
AssembleStatement ==
    /\ ext_out # ExtractPending
    /\ ext_df = FramePending
    /\ ext_df' = statement_frame(ext_out)
    /\ UNCHANGED <<ext_soup, ext_out, numVars, dateVars, pipeVars, reqVars, filVars>>

NextExt == ExtractStatement \/ AssembleStatement

SpecExt == InitExt /\ [][NextExt]_vars

(***************************************************************************)
(* SpecReq: one top-level call of make_get_request                         *)
(***************************************************************************)
InitReq ==
    /\ req_args \in {Args(p, j) : p \in {"None", "payload"}, j \in BOOLEAN}
    /\ req_stack = << Activation(0, req_args.payload, req_args.resp_json, "try") >>
    /\ req_signal = NoSignal
    /\ req_gets = <<>>
    /\ req_out = NoSignal
    /\ NumIdle
    /\ DateIdle
    /\ PipeIdle
    /\ ExtIdle
    /\ FilIdle

\* an activation ends: its caller, if any, gets the value or the exception
Leave(signal) ==
    /\ req_stack' = SubSeq(req_stack, 1, Len(req_stack) - 1)
    /\ IF Len(req_stack) = 1
       THEN req_out' = signal /\ req_signal' = NoSignal
       ELSE req_out' = req_out /\ req_signal' = signal

\* the try block of the innermost activation and the except clause it ends in
TryRequest ==
    /\ req_stack # <<>>
    /\ LET top == req_stack[Len(req_stack)]
       IN  /\ top.at = "try"
           /\ IF retry_count_below_limit(top.retry_count)
              THEN \E resp \in Responses :
                     LET o == try_outcome(resp, top.resp_json, Len(req_gets) + 1)
                     IN  /\ req_gets' = Append(req_gets,
                                Get(top.retry_count, top.payload, top.resp_json,
                                    resp))
                         /\ IF o.kind = "return" THEN Leave(o)
                            ELSE IF handling_clause(o.exc) = "TooManyRequestException"
                            THEN \* make_get_request(url, headers, retry_count + 1)
                                 /\ req_stack' =
                                       [req_stack EXCEPT ![Len(req_stack)].at = "handler"]
                                         \o << Activation(top.retry_count + 1,
                                                          "None", TRUE, "try") >>
                                 /\ UNCHANGED <<req_signal, req_out>>
                            ELSE \* "raise e" and "raise GetRequestException(str(e))"
                                 Leave(RaisedOut("GetRequestException"))
              ELSE \* raise GetRequestException, caught and raised again
                   /\ req_gets' = req_gets
                   /\ Leave(RaisedOut("GetRequestException"))
    /\ UNCHANGED <<req_args, numVars, dateVars, pipeVars, extVars, filVars>>

\* the recursive call of line 60 has ended: its value is not used and the
\* activation returns None; its exception leaves the handler
AfterRetry ==
    /\ req_stack # <<>>
    /\ req_stack[Len(req_stack)].at = "handler"
    /\ req_signal # NoSignal
    /\ IF req_signal.kind = "return" THEN Leave(ReturnedNone)
       ELSE Leave(req_signal)
    /\ UNCHANGED <<req_args, req_gets, numVars, dateVars, pipeVars, extVars, filVars>>

NextReq == TryRequest \/ AfterRetry

SpecReq == InitReq /\ [][NextReq]_vars

(***************************************************************************)
(* SpecFil: one call of get_filtered_filings                               *)
(***************************************************************************)
InitFil ==
    /\ form \in FormArguments
    /\ just_accession_numbers \in BOOLEAN
    /\ recent_filings \in FilingLists(MaxFilings)
    /\ filtered = FilteredPending
    /\ NumIdle
    /\ DateIdle
    /\ PipeIdle
    /\ ExtIdle
    /\ ReqIdle

\* the submission data are requested, filtered and returned; the request may
\* raise GetRequestException, or give None after a retry, which is then
\* subscripted
GetFilteredFilings ==
    /\ filtered = FilteredPending
    /\ \/ filtered' = filtered_filings(recent_filings, form, just_accession_numbers)
       \/ filtered' = FilteredRaised("GetRequestException")
       \/ filtered' = FilteredRaised("TypeError")
    /\ UNCHANGED <<form, just_accession_numbers, recent_filings,
                   numVars, dateVars, pipeVars, extVars, reqVars>>

NextFil == GetFilteredFilings

SpecFil == InitFil /\ [][NextFil]_vars

(***************************************************************************)
(* Properties of the locator and of get_one_statement (checked under Spec) *)
(***************************************************************************)
Synonyms == keys_map_get(Lower(statement_name))

Matches(i) == Lower(Synonyms[i]) \in DOMAIN catalog

Ran(stage) == \E i \in DOMAIN stages : stages[i] = stage

LinkTo(file_name) == BaseLink \o <<"/">> \o file_name

\* every catalog entry is keyed by the lowercased ShortName of a report and
\* holds that report's file
CatalogFromShortNames ==
    \A k \in DOMAIN catalog :
        \E i \in DOMAIN filing_summary :
            /\ filing_summary[i].ShortName.present
            /\ Lower(filing_summary[i].ShortName.text) = k
            /\ catalog[k] = get_file_name(filing_summary[i])

\* C1: the locator is first-match-wins and case-insensitive: once it has run,
\* the link is that of the earliest synonym (declared order) of
\* statement_keys_map[statement_name.lower()] whose lowercase form is the
\* lowercased ShortName of a catalog entry, also when later synonyms match.
C1_FirstMatchWins ==
    Ran("locate") =>
        /\ CatalogFromShortNames
        /\ (\E i \in DOMAIN Synonyms : Matches(i)) => statement_link # NoLink
        /\ statement_link # NoLink =>
              \E i \in DOMAIN Synonyms :
                  /\ Matches(i)
                  /\ \A j \in 1..(i - 1) : ~Matches(j)
                  /\ statement_link = LinkTo(catalog[Lower(Synonyms[i])])

\* a mixed-case statement name, an upper-case ShortName, two synonyms in the
\* catalog, and the first one resolved
C1_Witness ==
    /\ pc = "located"
    /\ statement_name = <<"B","a","l","a","n","c","e","_","S","h","e","e","t">>
    /\ \E i \in DOMAIN filing_summary :
          filing_summary[i].ShortName.text = <<"B","A","L","A","N","C","E"," ","S","H","E","E","T">>
    /\ DOMAIN catalog = {<<"b","a","l","a","n","c","e"," ","s","h","e","e","t">>, <<"b","a","l","a","n","c","e"," ","s","h","e","e","t","s">>}
    /\ statement_link = LinkTo(<<"R","8",".","h","t","m">>)

TwoSheetsCatalog ==
    DictSet(DictSet(EmptyDict, <<"b","a","l","a","n","c","e"," ","s","h","e","e","t","s">>, <<"R","2",".","h","t","m">>), <<"b","a","l","a","n","c","e"," ","s","h","e","e","t">>, <<"R","3",".","h","t","m">>)

TwoSheetsLocated ==
    /\ Ran("locate")
    /\ statement_name = K_balance_sheet
    /\ catalog = TwoSheetsCatalog

\* C2 as stated: with the catalog {"balance sheets": "R2.htm", "balance
\* sheet": "R3.htm"} the balance_sheet locator resolves "R2.htm".
C2_ResolvesR2 == TwoSheetsLocated => statement_link = LinkTo(<<"R","2",".","h","t","m">>)

\* C2 amended: with that catalog the balance_sheet locator resolves "R3.htm",
\* "balance sheet" being declared before "balance sheets".
C2_ResolvesR3 == TwoSheetsLocated => statement_link = LinkTo(<<"R","3",".","h","t","m">>)

C2_Witness == TwoSheetsLocated /\ pc = "located"

\* C3: when no synonym of the requested type is in the catalog (unknown type
\* and empty catalog included) get_statement_soup raises ValueError; no file
\* is resolved and no statement document is requested.
C3_NoMatchRaises ==
    (Ran("locate") /\ \A i \in DOMAIN Synonyms : ~Matches(i))
    => /\ soup = SoupRaised("ValueError")
       /\ statement_link = NoLink
       /\ ~Ran("fetch")

\* an unknown statement type against a catalog that is not empty
C3_Witness ==
    /\ statement_name = <<"e","q","u","i","t","y","_","s","t","a","t","e","m","e","n","t">>
    /\ catalog # EmptyDict
    /\ pc = "soup_done"
    /\ soup = SoupRaised("ValueError")

\* C4: get_one_statement never propagates an exception; a failure of the
\* resolution, of the fetch or of the table processing is logged and gives
\* None, and a (grid, label) pair is returned only when every stage succeeded.
C4_NeverPropagates ==
    /\ pc # "done" => result = ResultPending
    /\ pc = "done" =>
        /\ result.kind \in {"None", "pair"}
        /\ result.kind = "None" => log # <<>>
        /\ result.kind = "pair" =>
              /\ stages = <<"summary", "locate", "fetch", "process">>
              /\ soup.kind = "soup"
              /\ soup.doc.has_table
              /\ log = <<>>

\* a table whose processing raised: logged, None returned
C4_Witness ==
    /\ pc = "done"
    /\ soup.kind = "soup"
    /\ soup.doc.has_table
    /\ result = ResultNone
    /\ log = <<"Error processing statement">>

\* C5: when the resolved file name ends in ".xml" and the document was
\* fetched, get_statement_soup raises InvalidStatementLinkException to its
\* caller.
C5_XmlRaises ==
    (Ran("fetch") /\ EndsWith(statement_link, DotXml) /\ soup.exc # "ValueError")
    => soup = SoupRaised("InvalidStatementLinkException")

(***************************************************************************)
(* Properties of __standardize_number (checked under SpecNum)              *)
(***************************************************************************)
NumberReturned == number_out # Pending /\ number_str.kind = "str"

\* the missing markers of the specification, compared case-insensitively
LowerMarkers ==
    { <<>>, <<"n","/","a">>, <<"-","-">>, <<"n","a","n">> }

NoNumericChar(s) == \A i \in DOMAIN s : ~IsDigit(s[i]) /\ s[i] # "." /\ s[i] # "-"

\* C6: a missing marker in any letter case (empty, N/A, --, nan), and any
\* string with no numeric character left after stripping, is normalized to
\* null, never to zero.
C6_MissingMarkerIsNull ==
    (NumberReturned
        /\ (Lower(Strip(number_str.s)) \in LowerMarkers \/ NoNumericChar(number_str.s)))
    => number_out = None

\* a marker in a letter case the literal set does not list came back as null
C6_Witness ==
    /\ number_str = Str(<<"n","/","a">>)
    /\ number_out = None

HasBothParens(s) == Contains(s, "(") /\ Contains(s, ")")

CleanedOf(s) == SelectSeq(s, LAMBDA x : IsDigit(x) \/ x \in {".", "-"})

IsIntLiteral(s) ==
    \/ s # <<>> /\ AllDigits(s)
    \/ Len(s) > 1 /\ s[1] = "-" /\ AllDigits(Tail(s))

CurrencyFactor(s, m) == IF Contains(s, "$") THEN m ELSE 1

\* C7: a string holding both "(" and ")" yields the negation of the integer
\* its cleaned text parses to; a string without both is not negated (the
\* result carries the currency factor of C8 in either case).
C7_ParenthesesNegate ==
    (NumberReturned /\ number_out.kind = "int")
    => LET s == number_str.s
           n == int_value(CleanedOf(s))
       IN  /\ IsIntLiteral(CleanedOf(s))
           /\ HasBothParens(s)
                => number_out.val = (0 - n) * CurrencyFactor(s, multiplier)
           /\ ~HasBothParens(s)
                => number_out.val = n * CurrencyFactor(s, multiplier)

\* "(1,234)" with multiplier 1 came back as -1234
C7_Witness ==
    /\ number_str = Str(<<"(","1",",","2","3","4",")">>)
    /\ multiplier = 1
    /\ number_out = IntVal(0 - 1234)

\* the part of a cleaned string before its first decimal point
RECURSIVE IntegerPart(_)
IntegerPart(s) ==
    IF s = <<>> \/ s[1] = "." THEN <<>> ELSE <<s[1]>> \o IntegerPart(Tail(s))

HasFraction(s) == Contains(s, ".") /\ IsIntLiteral(IntegerPart(s))
                    /\ AllDigits(SubSeq(s, Len(IntegerPart(s)) + 2, Len(s)))

\* C9: a cleaned string with a decimal point is parsed by truncating the
\* fractional digits ("1,234.56" yields 1234); null only for text that is
\* not numeric at all.
C9_FractionTruncated ==
    (NumberReturned /\ ~IsMissingMarker(number_str.s)
        /\ HasFraction(CleanedOf(number_str.s)))
    => LET s == number_str.s
           n == int_value(IntegerPart(CleanedOf(s)))
       IN  /\ number_out.kind = "int"
           /\ number_out.val =
                (IF HasBothParens(s) THEN 0 - n ELSE n) * CurrencyFactor(s, multiplier)

(***************************************************************************)
(* Properties of __standardize_date (checked under SpecDate)               *)
(***************************************************************************)
FullMonthNames == {month_name[k] : k \in 1..12}

\* C10: month replacement is idempotent, standardize(standardize(s)) =
\* standardize(s), and a header that is a full month name is left unchanged.
C10_DateIdempotent ==
    /\ date_calls = 2 => date.s = standardize_date(date_in)
    /\ (date_calls >= 1 /\ date_in.s \in FullMonthNames) => date.s = date_in.s

(***************************************************************************)
(* Properties of the role-based extractor (checked under SpecExt)          *)
(***************************************************************************)
AllRowsLabelled(table) == \A r \in DOMAIN table.rows : table.rows[r].onclick.present

\* the value a numeric cell stands for, by its role: magnitude, signed
RoleValue(cell) ==
    IF cell.class = "nump" THEN float_value(cell_text_cleaned(cell.text))
    ELSE FloatNeg(float_value(cell_text_cleaned(cell.text)))

\* C8: the unit multiplier is applied to a cell value if and only if the raw
\* cell text contains "$", for every cell the extractor normalizes: in an
\* "in Millions" table "$ 1,234" gives 1234000 and "1,234" gives 1234.
C8_MultiplierOnlyForCurrency ==
    (ext_out.kind = "ok" /\ Len(ext_soup.tables) = 1
        /\ AllRowsLabelled(ext_soup.tables[1])
        /\ ~table_special_case(ext_soup.tables[1].header))
    => LET table == ext_soup.tables[1]
       IN  \A r \in DOMAIN table.rows :
             \A i \in DOMAIN table.rows[r].cells :
                LET cell == table.rows[r].cells[i]
                IN  (cell.class # "text" /\ cell_text_cleaned(cell.text) # <<>>)
                    => ext_out.values_set[r][i] =
                         FloatTimes(RoleValue(cell),
                                    IF Contains(cell.text, "$")
                                    THEN table_unit_multiplier(table.header)
                                    ELSE 1)
(***************************************************************************)
(* Properties of the date axis (checked under Spec)                        *)
(***************************************************************************)
\* C11: on every path that builds the date axis, the string handed to the
\* date parser has had its month abbreviation replaced and every "." removed:
\* "Jan. 31, 2020" reaches the parser as "January 31, 2020".  Here: the keys
\* process_dict hands to pd.to_datetime contain no ".".
C11_NoPeriodReachesParser ==
    result.kind = "pair" =>
        \A i \in DOMAIN result.grid.dates : ~Contains(result.grid.dates[i], ".")
(***************************************************************************)
(* Properties of the extracted values (checked under SpecExt)              *)
(***************************************************************************)
\* value / 1000
FloatPerThousand(x) == Normalized(x.digits, x.scale + 3)

OneLabelledTable == Len(ext_soup.tables) = 1 /\ AllRowsLabelled(ext_soup.tables[1])

IsValueCell(cell) == cell.class # "text" /\ cell_text_cleaned(cell.text) # <<>>

\* C12: in a table whose header contains "unless otherwise specified", the
\* extracted value of every numeric cell is its parsed magnitude divided by
\* 1000, whatever the header says about Thousands or Millions: "$2,000,000"
\* gives 2000 in the row's value list.
C12_SpecialCaseDividesBy1000 ==
    (ext_out.kind = "ok" /\ OneLabelledTable
        /\ table_special_case(ext_soup.tables[1].header))
    => LET table == ext_soup.tables[1]
       IN  \A r \in DOMAIN table.rows :
             \A i \in DOMAIN table.rows[r].cells :
                LET cell == table.rows[r].cells[i]
                IN  (IsValueCell(cell) /\ i <= Len(ext_out.date_time_index))
                    => ext_out.values_set[r][i] =
                         FloatPerThousand(float_value(cell_text_cleaned(cell.text)))
(***************************************************************************)
(* Properties of the values of a processed statement (checked under Spec)  *)
(***************************************************************************)
\* the text of the header cell of the table's first column
HeaderText(name_col) == name_col.first \o name_col.s

\* C13: the unit multiplier is derived once per table from its header text:
\* "in Millions" gives 1000, so the currency cell "$2" yields 2000; "in
\* Thousands" or no hint gives 1.  Here: a statement with one period column
\* comes out with every cell normalized under the multiplier of its header.
C13_MultiplierFromHeader ==
    (result.kind = "pair" /\ Len(soup.doc.columns) = 1
        /\ Len(result.grid.cells) = 1)
    => \A i \in DOMAIN soup.doc.columns[1].cells :
          result.grid.cells[1][i] =
              standardize_number(soup.doc.columns[1].cells[i],
                  table_unit_multiplier(Tag(HeaderText(soup.doc.name_col))))

\* the rows of the first n tables that carry a label link, in document order
RECURSIVE LabelledRows(_, _)
LabelledRows(tables, n) ==
    IF n = 0 THEN <<>>
    ELSE LabelledRows(tables, n - 1)
            \o SelectSeq(tables[n].rows, LAMBDA row : row.onclick.present)

ExtRows == LabelledRows(ext_soup.tables, Len(ext_soup.tables))

\* C14: every extracted row's value list has exactly len(DateAxis) entries;
\* it starts all-null and only the positions of value-bearing cells are
\* overwritten, each by the value of the cell at that same position: a row
\* with fewer populated cells than dates keeps nulls in the other positions.
C14_RowLengthIsDateAxis ==
    ext_out.kind = "ok" =>
        /\ Len(ext_out.values_set) = Len(ExtRows)
        /\ \A r \in DOMAIN ext_out.values_set :
              /\ Len(ext_out.values_set[r]) = Len(ext_out.date_time_index)
              /\ \A i \in DOMAIN ext_out.values_set[r] :
                    ext_out.values_set[r][i] # NaN =>
                        /\ i <= Len(ExtRows[r].cells)
                        /\ IsValueCell(ExtRows[r].cells[i])
                        /\ \E m \in {1, 1000} :
                              ext_out.values_set[r][i] =
                                  FloatTimes(RoleValue(ExtRows[r].cells[i]), m)

\* four dated columns, a row with two populated cells: two nulls follow
C14_Witness ==
    /\ ext_out.kind = "ok"
    /\ Len(ext_out.date_time_index) = 4
    /\ \E r \in DOMAIN ext_out.values_set :
          /\ Len(ExtRows[r].cells) = 2
          /\ Len(ext_out.values_set[r]) = 4
          /\ ext_out.values_set[r][1] # NaN
          /\ ext_out.values_set[r][2] # NaN
          /\ ext_out.values_set[r][3] = NaN
          /\ ext_out.values_set[r][4] = NaN

(***************************************************************************)
(* Properties of the assembled frame (checked under SpecExt)               *)
(***************************************************************************)
\* the first extracted row carrying the label
FirstWithLabel(label) ==
    CHOOSE r \in DOMAIN ext_out.columns :
        /\ ext_out.columns[r] = label
        /\ \A q \in 1..(r - 1) : ext_out.columns[q] # label

\* C15: the assembled grid is de-duplicated by row label: no two rows of the
\* final grid share a label, the row kept for a label is its first
\* occurrence, and rows with different labels are all kept, also when their
\* values are identical.
C15_DeduplicatedByLabel ==
    ext_df.kind = "df" =>
        /\ \A a, b \in DOMAIN ext_df.labels :
              ext_df.labels[a] = ext_df.labels[b] => a = b
        /\ \A a \in DOMAIN ext_df.labels :
              ext_df.rows[a] = ext_out.values_set[FirstWithLabel(ext_df.labels[a])]
        /\ \A r \in DOMAIN ext_out.columns :
              \E a \in DOMAIN ext_df.labels : ext_df.labels[a] = ext_out.columns[r]

(***************************************************************************)
(* Properties of the grid of a processed statement (checked under Spec)    *)
(***************************************************************************)
\* C16: assembling a grid from N rows and M date columns yields at most N
\* rows and exactly M columns, in the order the dates were parsed: no date
\* column and no row value is dropped.  Here: the grid get_one_statement
\* returns has one column per period column of the table, in table order,
\* each holding one value per line item.
C16_GridKeepsEveryColumn ==
    result.kind = "pair" =>
        /\ Len(result.grid.dates) = Len(soup.doc.columns)
        /\ Len(result.grid.cells) = Len(soup.doc.columns)
        /\ \A c \in DOMAIN result.grid.dates :
              /\ result.grid.dates[c] = standardize_date(soup.doc.columns[c].date)
              /\ Len(result.grid.cells[c]) = Len(soup.doc.attributes)

(***************************************************************************)
(* Properties of the sign of extracted values (checked under SpecExt)      *)
(***************************************************************************)
IsNegative(x) == x.kind = "float" /\ x.digits < 0

\* C17: an extracted value is negative if its cell was parenthesized or
\* carries the negative-number role, and parenthesization decides the sign
\* whatever the role: a parenthesized cell with the positive-number role
\* yields a negative value.
C17_ParenthesesDecideSign ==
    (ext_out.kind = "ok" /\ OneLabelledTable
        /\ ~table_special_case(ext_soup.tables[1].header))
    => LET table == ext_soup.tables[1]
       IN  \A r \in DOMAIN table.rows :
             \A i \in DOMAIN table.rows[r].cells :
                LET cell == table.rows[r].cells[i]
                IN  (IsValueCell(cell) /\ (has_parens(cell.text) \/ cell.class = "num"))
                    => IsNegative(ext_out.values_set[r][i])

(***************************************************************************)
(* Properties of cell failures (checked under SpecExt)                     *)
(***************************************************************************)
\* a numeric cell whose cleaned text float() rejects
FailsNumericParsing(cell) ==
    /\ cell.class # "text"
    /\ cell_text_cleaned(cell.text) # <<>>
    /\ ~float_parses(cell_text_cleaned(cell.text))

\* C18: a cell that fails numeric parsing becomes null in its row and never
\* aborts the row or the statement: whatever the cells hold (for example the
\* cleaned string "1.2.3"), the other cells and rows are extracted and a grid
\* is returned.  Here: no extraction ends with the exception of a cell, and a
\* cell that fails leaves null at its position.
C18_CellFailureIsNull ==
    /\ ext_out.kind = "raise" => ext_out.exc # "ValueError"
    /\ (ext_out.kind = "ok" /\ OneLabelledTable) =>
          \A r \in DOMAIN ext_soup.tables[1].rows :
             \A i \in DOMAIN ext_soup.tables[1].rows[r].cells :
                (FailsNumericParsing(ext_soup.tables[1].rows[r].cells[i])
                    /\ i <= Len(ext_out.date_time_index))
                => ext_out.values_set[r][i] = NaN

(***************************************************************************)
(* Properties of make_get_request (checked under SpecReq)                  *)
(***************************************************************************)
Every429 == \A k \in DOMAIN req_gets : req_gets[k].status = 429

\* C19: make_get_request retries a bounded number of times: a top-level call
\* issues at most 3 GETs, every GET after a 429 response is made with the
\* retry count incremented (the k-th GET has retry count k - 1 and follows a
\* 429), and when every attempt returns 429 the call ends by raising
\* GetRequestException after the third.
C19_BoundedRetries ==
    /\ Len(req_gets) <= 3
    /\ \A k \in DOMAIN req_gets :
          /\ req_gets[k].retry_count = k - 1
          /\ k > 1 => req_gets[k - 1].status = 429
    /\ (req_out # NoSignal /\ Every429) =>
          /\ req_out = RaisedOut("GetRequestException")
          /\ Len(req_gets) = 3

\* three attempts, each answered 429, and the exception has reached the caller
C19_Witness ==
    /\ Len(req_gets) = 3
    /\ Every429
    /\ req_stack = <<>>
    /\ req_out = RaisedOut("GetRequestException")

\* the value the top-level call should return for the body of the k-th GET
BodyOf(k) == Returned(IF req_args.resp_json THEN "dict" ELSE "str", k)

\* the k-th GET got a response other than 429, with a body that can be given
\* in the form the caller asked for
Answered(k) ==
    /\ req_gets[k].status \notin {0, 429}
    /\ req_args.resp_json => req_gets[k].body = "json"

\* C20: whenever some attempt receives a response other than 429, also after
\* one or more 429 retries, the top-level call returns the body of that
\* response in the form resp_json asks for, and every attempt is made with
\* the payload and the resp_json of the top-level call.
C20_ReturnsBodyAfterRetry ==
    /\ \A k \in DOMAIN req_gets :
          /\ req_gets[k].payload = req_args.payload
          /\ req_gets[k].resp_json = req_args.resp_json
    /\ \A k \in DOMAIN req_gets :
          (req_out # NoSignal /\ Answered(k)) => req_out = BodyOf(k)

(***************************************************************************)
(* Properties of get_filtered_filings (checked under SpecFil)              *)
(***************************************************************************)
\* C21: get_filtered_filings with form = None applies no filter and returns
\* every recent filing; with a form given it returns exactly the filings
\* whose form equals it; in both cases with the dashes removed from every
\* accession number.
C21_NoneMeansNoFilter ==
    filtered.kind \in {"series", "frame"} =>
        filtered.rows =
            LET wanted == SelectSeq(recent_filings,
                              LAMBDA row : form = NoForm \/ row.form = form.s)
            IN  [i \in DOMAIN wanted |-> without_dashes(wanted[i])]

(***************************************************************************)
(* Properties of the order of the stages (checked under Spec)              *)
(***************************************************************************)
StageOrder == <<"summary", "locate", "fetch", "process">>

\* C22: in every execution of get_one_statement the stages run in the order
\* resolve file, fetch statement document, extract and assemble: the document
\* is requested only after a file was resolved from the catalog, and when the
\* resolution or the fetch fails, or the file is an .xml one, the table is
\* never processed and no grid is returned.
C22_StagesInOrder ==
    /\ stages = SubSeq(StageOrder, 1, Len(stages))
    /\ Ran("fetch") =>
          \E k \in DOMAIN catalog : statement_link = LinkTo(catalog[k])
    /\ Ran("process") => soup.kind = "soup"
    /\ (pc = "done" /\ soup.kind # "soup") =>
          /\ ~Ran("process")
          /\ result.kind \notin {"pair", "pending"}
          /\ result.grid = NoGrid

\* a file was resolved and requested, the request failed: nothing is
\* processed and None is returned
C22_Witness ==
    /\ pc = "done"
    /\ stages = <<"summary", "locate", "fetch">>
    /\ soup = SoupRaised("ValueError")
    /\ result = ResultNone

(***************************************************************************)
(* Properties of rows longer than the date axis (checked under SpecExt)    *)
(***************************************************************************)
\* some row with a label link, of some table, satisfies P
SomeLabelledRow(P(_, _)) ==
    \E t \in DOMAIN ext_soup.tables :
        \E r \in DOMAIN ext_soup.tables[t].rows :
            ext_soup.tables[t].rows[r].onclick.present /\ P(t, r)

\* the row has more value-role cells (text, nump, num) than there are dates
MoreCellsThanDates(t, r) ==
    Len(ext_soup.tables[t].rows[r].cells) > Len(ext_soup.dates)

\* the row has a numeric cell with a value, past the last date, that the
\* loop writes
WritesPastDates(t, r) ==
    /\ ~table_special_case(ext_soup.tables[t].header)
    /\ \E i \in DOMAIN ext_soup.tables[t].rows[r].cells :
          /\ i > Len(ext_soup.dates)
          /\ IsValueCell(ext_soup.tables[t].rows[r].cells[i])

\* C23 (as claimed): a data row with more value-role cells (text, positive-
\* number or negative-number) than there are dates is not truncated or
\* padded: the write past the date axis fails, the rows already extracted are
\* discarded and get_one_statement returns None.
C23_MoreCellsThanDatesFails ==
    (ext_out # ExtractPending /\ SomeLabelledRow(MoreCellsThanDates))
    => /\ ext_out.kind = "raise"
       /\ ext_df # FramePending => ext_df = FrameNone

\* C23 (amended): a data row in which a numeric cell with a value stands past
\* the last date, in a table without the special-case header, is not
\* truncated or padded: the extraction ends with an exception, the rows
\* already extracted are discarded and get_one_statement returns None; and
\* the write past the date axis (IndexError) happens for such rows only.
C23_WritePastDatesFails ==
    /\ (ext_out # ExtractPending /\ SomeLabelledRow(WritesPastDates))
       => /\ ext_out.kind = "raise"
          /\ ext_out.values_set = <<>>
          /\ ext_df # FramePending => ext_df = FrameNone
    /\ ext_out.exc = "IndexError" => SomeLabelledRow(WritesPastDates)

\* a first row within the date axis, then a row that writes past it: nothing
\* is returned
C23_Witness ==
    /\ ext_out = ExtractRaised("IndexError")
    /\ ext_df = FrameNone
    /\ Len(ExtRows) = 2
    /\ Len(ext_soup.tables) = 2
    /\ ~WritesPastDates(1, 1)
    /\ WritesPastDates(2, 1)

====
